---- MODULE Spec2Model ----
(***************************************************************************)
(* Model of skills/datto-rmm-component-dev/scripts/rmm.py: the monitor     *)
(* output validator (validate_monitor_output), the validate-monitor-output *)
(* command and the run command (cmd_run) under main's error handler.       *)
(*                                                                         *)
(* Text is a sequence of tokens.  A token is one character (" ", "S", "t", *)
(* "=", "x", "-", the line feed LF) or one of the four marker literals,    *)
(* which the code only ever compares as whole strings.  Of the line        *)
(* boundaries of str.splitlines only the line feed is in the alphabet.     *)
(***************************************************************************)
EXTENDS Integers, Sequences, FiniteSets, TLC

VARIABLES
    pc,           \* position in the command being executed
    text,         \* validate-monitor-output: the input read; run: content of stdout.txt
    outputVar,    \* args.output_var
    validation,   \* the MonitorValidationResult once validate_monitor_output returned
    exitCode,     \* the exit status of the command, NoCode while it runs
    args,         \* run: the parsed arguments and the files they name
    env,          \* run: the environment handed to the child
    workdir,      \* run: "none" | "created" | "existing"
    copied,       \* run: names copied into the working directory
    stdoutOpen,   \* run: stdout_f is open
    stderrOpen,   \* run: stderr_f is open
    spawned,      \* run: the child process was started
    returncode,   \* run: proc.returncode, NoCode before the child ended
    error         \* run: the exception raised, "none" if none

vars == <<pc, text, outputVar, validation, exitCode, args, env, workdir, copied,
          stdoutOpen, stderrOpen, spawned, returncode, error>>

-----------------------------------------------------------------------------
(* Bounds *)

\* validate-monitor-output: every input of at most MaxLines lines
MaxLines == 5

\* validate-monitor-output: every framed output with a result block of at most MaxBlock lines
MaxBlock == 2

\* run: the child exits with a code in 0..MaxExit
MaxExit == 3

-----------------------------------------------------------------------------
(* Tokens *)

LF == "LF"
StartDiagnostic == "<-Start Diagnostic->"
EndDiagnostic == "<-End Diagnostic->"
StartResult == "<-Start Result->"
EndResult == "<-End Result->"

\* str.isspace() / what str.strip() removes, within the alphabet
Whitespace == {" ", LF}

\* [A-Za-z0-9_] within the alphabet
NameChars == {"S", "t"}

\* The exit status of lines 294 and 362
ValidationFailed == 2

\* The exit status of line 409
RmmErrorCode == 1

NoCode == -1
NoValidation == [performed |-> FALSE, ok |-> FALSE, errors |-> <<>>]

-----------------------------------------------------------------------------
(* validate_output_var *)

RECURSIVE LStrip(_)
LStrip(s) ==
    IF s # <<>> /\ Head(s) \in Whitespace THEN LStrip(Tail(s)) ELSE s

RECURSIVE RStrip(_)
RStrip(s) ==
    IF s # <<>> /\ s[Len(s)] \in Whitespace THEN RStrip(SubSeq(s, 1, Len(s) - 1)) ELSE s

\* str.strip()
Strip(s) == RStrip(LStrip(s))

\* re.fullmatch(r"[A-Za-z0-9_]+", s)
FullMatchName(s) == s # <<>> /\ \A i \in 1..Len(s) : s[i] \in NameChars

\* validate_output_var: the stripped name, or RmmError
ValidateOutputVar(output_var) ==
    LET stripped == Strip(output_var)
    IN  IF FullMatchName(stripped)
        THEN [raised |-> FALSE, value |-> stripped]
        ELSE [raised |-> TRUE, value |-> stripped]

-----------------------------------------------------------------------------
(* validate_monitor_output *)

\* An error string of the result: its fixed wording (kind), the lines it
\* quotes and the count it reports.
Err(kind, lines, found) == [kind |-> kind, lines |-> lines, found |-> found]

ErrCount(marker) == Err("Expected exactly one marker line", <<<<marker>>>>, 0)
ErrOrder == Err("Marker order must be", <<>>, 0)
ErrEmpty == Err("Result block is empty", <<>>, 0)
ErrMatch(output_var, n) == Err("Expected exactly one output variable line", <<output_var>>, n)
ErrExample == Err("Example", <<>>, 0)
ErrExtra == Err("Result block must contain exactly one non-empty line", <<>>, 0)
ErrExtraLines(other) == Err("Unexpected additional lines", other, 0)
ErrValue == Err("Do not include spaces around =", <<>>, 0)

\* str.splitlines(): a line ends at each line feed; no empty last line
RECURSIVE SplitFrom(_, _, _)
SplitFrom(rest, cur, acc) ==
    IF rest = <<>>
    THEN IF cur = <<>> THEN acc ELSE Append(acc, cur)
    ELSE IF Head(rest) = LF
         THEN SplitFrom(Tail(rest), <<>>, Append(acc, cur))
         ELSE SplitFrom(Tail(rest), Append(cur, Head(rest)), acc)

SplitLines(t) == SplitFrom(t, <<>>, <<>>)

\* find_all: the indices (0-based, ascending) of the lines that equal the marker once stripped
RECURSIVE FindFrom(_, _, _)
FindFrom(lines, marker, idx) ==
    IF idx >= Len(lines) THEN <<>>
    ELSE IF Strip(lines[idx + 1]) = <<marker>>
         THEN <<idx>> \o FindFrom(lines, marker, idx + 1)
         ELSE FindFrom(lines, marker, idx + 1)

FindAll(lines, marker) == FindFrom(lines, marker, 0)

\* MonitorValidationResult(ok=False, errors=errors)
Failed(errors) == [raised |-> FALSE, ok |-> FALSE, errors |-> errors]

\* a variant that stops at the first miscounted marker
CountErrorsFirstOnly(lines) ==
    IF Len(FindAll(lines, StartDiagnostic)) # 1 THEN <<ErrCount(StartDiagnostic)>>
    ELSE IF Len(FindAll(lines, EndDiagnostic)) # 1 THEN <<ErrCount(EndDiagnostic)>>
    ELSE IF Len(FindAll(lines, StartResult)) # 1 THEN <<ErrCount(StartResult)>>
    ELSE IF Len(FindAll(lines, EndResult)) # 1 THEN <<ErrCount(EndResult)>>
    ELSE <<>>

\* errors of lines 169-176: every count is checked
CountErrors(lines) ==
    (IF Len(FindAll(lines, StartDiagnostic)) # 1 THEN <<ErrCount(StartDiagnostic)>> ELSE <<>>)
    \o (IF Len(FindAll(lines, EndDiagnostic)) # 1 THEN <<ErrCount(EndDiagnostic)>> ELSE <<>>)
    \o (IF Len(FindAll(lines, StartResult)) # 1 THEN <<ErrCount(StartResult)>> ELSE <<>>)
    \o (IF Len(FindAll(lines, EndResult)) # 1 THEN <<ErrCount(EndResult)>> ELSE <<>>)

\* a variant with the pattern "=.*": an empty value matches
PatternMatchAnyValue(output_var, ln) ==
    /\ Len(ln) >= Len(output_var) + 1
    /\ SubSeq(ln, 1, Len(output_var)) = output_var
    /\ ln[Len(output_var) + 1] = "="
    /\ \A i \in (Len(output_var) + 2)..Len(ln) : ln[i] # LF

\* re.compile(rf"^{re.escape(output_var)}=.+$").match(ln); "." is any character but a line feed
PatternMatch(output_var, ln) ==
    /\ Len(ln) >= Len(output_var) + 2
    /\ SubSeq(ln, 1, Len(output_var)) = output_var
    /\ ln[Len(output_var) + 1] = "="
    /\ \A i \in (Len(output_var) + 2)..Len(ln) : ln[i] # LF

\* a variant that checks the value of the matching line before looking for other lines
CheckResultBlockValueFirst(lines, rs, re_, output_var) ==
    LET result_lines == SubSeq(lines, rs + 2, re_)
        NonEmpty(ln) == Strip(ln) # <<>>
        non_empty == SelectSeq(result_lines, NonEmpty)
        Matches(ln) == PatternMatch(output_var, ln)
        matching == SelectSeq(non_empty, Matches)
    IN  IF non_empty = <<>> THEN Failed(<<ErrEmpty>>)
        ELSE IF Len(matching) # 1
        THEN Failed(<<ErrMatch(output_var, Len(matching)), ErrExample>>)
        ELSE LET Other(ln) == ln # matching[1]
                 other_lines == SelectSeq(non_empty, Other)
                 value == SubSeq(matching[1], Len(output_var) + 2, Len(matching[1]))
             IN  IF value # <<>> /\ value[1] \in Whitespace
                 THEN Failed(<<ErrValue>>)
                 ELSE IF other_lines # <<>>
                 THEN Failed(<<ErrExtra, ErrExtraLines(other_lines)>>)
                 ELSE [raised |-> FALSE, ok |-> TRUE, errors |-> <<>>]

\* lines 188-214, once the markers are in order
CheckResultBlock(lines, rs, re_, output_var) ==
    LET result_lines == SubSeq(lines, rs + 2, re_)
        NonEmpty(ln) == Strip(ln) # <<>>
        non_empty == SelectSeq(result_lines, NonEmpty)
        Matches(ln) == PatternMatch(output_var, ln)
        matching == SelectSeq(non_empty, Matches)
    IN  IF non_empty = <<>> THEN Failed(<<ErrEmpty>>)
        ELSE IF Len(matching) # 1
        THEN Failed(<<ErrMatch(output_var, Len(matching)), ErrExample>>)
        ELSE LET \* "ln is not matching[0]": with a single matching line, every
                 \* other line differs from it as a string, so identity and
                 \* inequality select the same lines
                 Other(ln) == ln # matching[1]
                 other_lines == SelectSeq(non_empty, Other)
                 value == SubSeq(matching[1], Len(output_var) + 2, Len(matching[1]))
             IN  IF other_lines # <<>>
                 THEN Failed(<<ErrExtra, ErrExtraLines(other_lines)>>)
                 ELSE IF value # <<>> /\ value[1] \in Whitespace
                 THEN Failed(<<ErrValue>>)
                 ELSE [raised |-> FALSE, ok |-> TRUE, errors |-> <<>>]

\* lines 181-186, once every marker occurs once
CheckOrder(lines, output_var) ==
    LET ds == FindAll(lines, StartDiagnostic)[1]
        de == FindAll(lines, EndDiagnostic)[1]
        rs == FindAll(lines, StartResult)[1]
        re_ == FindAll(lines, EndResult)[1]
    IN  IF ~(ds < de /\ de < rs /\ rs < re_)
        THEN Failed(<<ErrOrder>>)
        ELSE CheckResultBlock(lines, rs, re_, output_var)

\* validate_monitor_output(text, output_var)
ValidateMonitorOutput(t, output_var) ==
    LET v == ValidateOutputVar(output_var)
        lines == SplitLines(t)
        errors == CountErrors(lines)
    IN  IF v.raised THEN [raised |-> TRUE, ok |-> FALSE, errors |-> <<>>]
        ELSE IF errors # <<>> THEN Failed(errors)
        ELSE CheckOrder(lines, v.value)


-----------------------------------------------------------------------------
(* The validate-monitor-output command: cmd_validate_monitor_output under main *)

\* "".join(line + "\n" for line in ls)
RECURSIVE JoinLines(_)
JoinLines(ls) ==
    IF ls = <<>> THEN <<>> ELSE Head(ls) \o <<LF>> \o JoinLines(Tail(ls))

\* The lines of the short inputs
InputLines ==
    { <<StartDiagnostic>>, <<EndDiagnostic>>, <<StartResult>>, <<EndResult>>,
      <<" ">>, <<"S", "=", "x">> }

\* The lines of a result block
BlockLines ==
    { <<>>, <<" ">>, <<"x">>,
      <<"S", "=", "x">>, <<"S", "=", " ", "x">>, <<"S", "=">>,
      <<" ", "S", "=", "x">>, <<"S", "t", "=", "x", " ">>, <<"x", EndResult>> }

\* The marker lines around a result block: bare, or indented with trailing blanks
Frames == { <<>>, <<" ">> }

Framed(pad, block) ==
    JoinLines(<<pad \o <<StartDiagnostic>> \o pad, <<"x">>, pad \o <<EndDiagnostic>> \o pad,
                pad \o <<StartResult>> \o pad>>
              \o block \o <<pad \o <<EndResult>> \o pad>>)

\* --output-var as given on the command line
InputVars == { <<"S">>, <<"S", "t">>, <<" ", "S">>, <<"S", "-">>, <<>> }

\* Every input of at most MaxLines lines, with the default name; every framed
\* output with a block of at most MaxBlock lines, with every name.
Init ==
    /\ pc = "validate_monitor_output"
    /\ \/ /\ \E n \in 0..MaxLines : \E ls \in [1..n -> InputLines] : text = JoinLines(ls)
          /\ outputVar = <<"S">>
       \/ /\ \E pad \in Frames : \E n \in 0..MaxBlock : \E block \in [1..n -> BlockLines] :
                text = Framed(pad, block)
          /\ outputVar \in InputVars
    /\ validation = NoValidation
    /\ exitCode = NoCode
    /\ args = <<>>
    /\ env = <<>>
    /\ workdir = "none"
    /\ copied = {}
    /\ stdoutOpen = FALSE
    /\ stderrOpen = FALSE
    /\ spawned = FALSE
    /\ returncode = NoCode
    /\ error = "none"

\* lines 276-294, and main's handler (lines 405-409) for the RmmError of line 157
CmdValidateMonitorOutput ==
    /\ pc = "validate_monitor_output"
    /\ LET result == ValidateMonitorOutput(text, outputVar)
       IN  /\ validation' = [performed |-> ~result.raised, ok |-> result.ok, errors |-> result.errors]
           /\ exitCode' = IF result.raised THEN RmmErrorCode
                          ELSE IF result.ok THEN 0 ELSE ValidationFailed
           /\ error' = IF result.raised THEN "Invalid --output-var" ELSE "none"
    /\ pc' = "done"
    /\ UNCHANGED <<text, outputVar, args, env, workdir, copied, stdoutOpen, stderrOpen,
                   spawned, returncode>>

Next == CmdValidateMonitorOutput

Spec == Init /\ [][Next]_vars

-----------------------------------------------------------------------------
(* The run command: cmd_run under main *)

\* the map with no key
EmptyEnv == [k \in {} |-> <<>>]

\* os.environ at the start of the call
Ambient == (<<"PATH">> :> <<"x">>)

\* one line of an override file (lines 124-145; no quotes in the alphabet,
\* so the value is kept as stripped)
ParseEnvLine(raw_line) ==
    LET stripped == Strip(raw_line)
        line == IF Len(stripped) >= 2 /\ stripped[1] = "export" /\ stripped[2] = " "
                THEN Strip(SubSeq(stripped, 3, Len(stripped)))
                ELSE stripped
        eq == CHOOSE i \in 1..Len(line) : line[i] = "=" /\ \A j \in 1..(i - 1) : line[j] # "="
        key == Strip(SubSeq(line, 1, eq - 1))
        value == Strip(SubSeq(line, eq + 1, Len(line)))
    IN  IF stripped = <<>> \/ stripped[1] = "#"
        THEN [raised |-> FALSE, skip |-> TRUE, key |-> <<>>, value |-> <<>>]
        ELSE IF \A i \in 1..Len(line) : line[i] # "="
        THEN [raised |-> TRUE, skip |-> FALSE, key |-> <<>>, value |-> <<>>]
        ELSE IF key = <<>>
        THEN [raised |-> TRUE, skip |-> FALSE, key |-> <<>>, value |-> <<>>]
        ELSE [raised |-> FALSE, skip |-> FALSE, key |-> key, value |-> value]

\* the loop of lines 123-145 over the remaining lines
RECURSIVE ParseEnvLines(_, _)
ParseEnvLines(lines, acc) ==
    IF lines = <<>> THEN [raised |-> FALSE, error |-> "none", env |-> acc]
    ELSE LET r == ParseEnvLine(Head(lines))
         IN  IF r.raised THEN [raised |-> TRUE, error |-> "Invalid env line", env |-> acc]
             ELSE IF r.skip THEN ParseEnvLines(Tail(lines), acc)
             ELSE ParseEnvLines(Tail(lines), (r.key :> r.value) @@ acc)

\* parse_env_file
ParseEnvFile(file) ==
    IF ~file.exists
    THEN [raised |-> TRUE, error |-> "--vars file not found", env |-> EmptyEnv]
    ELSE ParseEnvLines(file.lines, EmptyEnv)

\* a variant that does not follow symbolic links
IsRegularFileNoFollow(kind) == kind = "file"

\* Path.is_file(): a regular file, or a symbolic link that leads to one
IsFile(kind) == kind \in {"file", "symlink_to_file"}

\* the names copy_attachments copies (lines 114-116): iterdir() lists the
\* directory's own entries only
CopiedNames(entries) == { name \in DOMAIN entries : IsFile(entries[name]) }

\* lines 319-324
Interpreter(suffix) ==
    LET lower == CASE suffix = ".PS1" -> ".ps1"
                   [] suffix = ".SH" -> ".sh"
                   [] OTHER -> suffix
    IN  IF lower = ".ps1" THEN "pwsh"
        ELSE IF lower = ".sh" THEN "bash"
        ELSE "unsupported"

\* lines 347-349
ShouldValidate(a) == a.validate_monitor \/ a.inMonitors

\* a variant that never surfaces a validation failure
ReturnValueOfChild(rc, ok) == rc

\* a variant that reports a validation failure over the child's own failure
ReturnValueValidationFirst(rc, ok) == IF ~ok THEN ValidationFailed ELSE rc

\* lines 354-364: the value cmd_run returns once validation returned
ReturnValue(rc, ok) == IF ~ok /\ rc = 0 THEN ValidationFailed ELSE rc

\* --vars: not given, a path that does not exist, or a file
VarsFiles ==
    { [given |-> FALSE, exists |-> FALSE, lines |-> <<>>],
      [given |-> TRUE, exists |-> FALSE, lines |-> <<>>],
      [given |-> TRUE, exists |-> TRUE,
       lines |-> << <<"#", "x">>, <<>>, <<"export", " ", "K", "=", "x">>, <<" ", "PATH", " ", "=", " ", "S">> >>],
      [given |-> TRUE, exists |-> TRUE, lines |-> << <<"K", "=", "x">>, <<"K", "x">> >>],
      [given |-> TRUE, exists |-> TRUE, lines |-> << <<" ", "=", "x">> >>] }

\* what an entry of the attachments directory can be; every sub-directory
\* holds files of its own
EntryKinds == {"file", "dir", "symlink_to_file", "symlink_to_dir", "symlink_dangling"}
EntryNames == {"a.dat", "b.dat"}

\* --attachments: not given, a path that is no directory, or a directory
AttachmentDirs ==
    { [given |-> FALSE, isDir |-> FALSE, entries |-> EmptyEnv],
      [given |-> TRUE, isDir |-> FALSE, entries |-> EmptyEnv] }
    \cup { [given |-> TRUE, isDir |-> TRUE, entries |-> e] :
             e \in UNION { [names -> EntryKinds] : names \in SUBSET EntryNames } }

\* what the child may write to its standard output
ChildOutputs ==
    { <<>>,
      Framed(<<>>, << <<"S", "=", "x">> >>),
      Framed(<<>>, << <<"S", "=", " ", "x">> >>) }

RunArgs ==
    [ scriptExists : BOOLEAN,
      suffix : {".sh", ".PS1", ".txt"},
      inMonitors : BOOLEAN,
      validate_monitor : BOOLEAN,
      vars : VarsFiles,
      attachments : AttachmentDirs,
      workdir : {"none", "absent", "existing"} ]

RunInit ==
    /\ pc = "script"
    /\ args \in RunArgs
    /\ outputVar \in { <<"S">>, <<"S", "-">> }
    /\ text = <<>>
    /\ validation = NoValidation
    /\ exitCode = NoCode
    /\ env = EmptyEnv
    /\ workdir = "none"
    /\ copied = {}
    /\ stdoutOpen = FALSE
    /\ stderrOpen = FALSE
    /\ spawned = FALSE
    /\ returncode = NoCode
    /\ error = "none"

\* raise RmmError(msg), or an exception leaving cmd_run
Raise(msg) == error' = msg /\ pc' = "raised"

\* lines 298-302
ResolveScript ==
    /\ pc = "script"
    /\ IF ~args.scriptExists THEN Raise("--script not found")
       ELSE pc' = "workdir" /\ UNCHANGED error
    /\ UNCHANGED <<text, outputVar, validation, exitCode, args, env, workdir, copied,
                   stdoutOpen, stderrOpen, spawned, returncode>>

\* lines 306-307: mkdtemp, or mkdir(parents=True, exist_ok=True) of the given path
MakeWorkdir ==
    /\ pc = "workdir"
    /\ workdir' = IF args.workdir = "existing" THEN "existing" ELSE "created"
    /\ pc' = "vars"
    /\ UNCHANGED <<text, outputVar, validation, exitCode, args, env, copied,
                   stdoutOpen, stderrOpen, spawned, returncode, error>>

\* lines 309-311
LoadVars ==
    /\ pc = "vars"
    /\ IF ~args.vars.given
       THEN env' = Ambient /\ pc' = "attachments" /\ UNCHANGED error
       ELSE LET parsed == ParseEnvFile(args.vars)
            IN  IF parsed.raised
                THEN env' = Ambient /\ Raise(parsed.error)
                ELSE env' = parsed.env @@ Ambient /\ pc' = "attachments" /\ UNCHANGED error
    /\ UNCHANGED <<text, outputVar, validation, exitCode, args, workdir, copied,
                   stdoutOpen, stderrOpen, spawned, returncode>>

\* lines 313-314 and copy_attachments
CopyAttachments ==
    /\ pc = "attachments"
    /\ IF ~args.attachments.given
       THEN pc' = "interpreter" /\ UNCHANGED <<copied, error>>
       ELSE IF ~args.attachments.isDir
       THEN Raise("--attachments must be a directory") /\ UNCHANGED copied
       ELSE /\ copied' = CopiedNames(args.attachments.entries)
            /\ pc' = "interpreter"
            /\ UNCHANGED error
    /\ UNCHANGED <<text, outputVar, validation, exitCode, args, env, workdir,
                   stdoutOpen, stderrOpen, spawned, returncode>>

\* lines 316-328
ChooseInterpreter ==
    /\ pc = "interpreter"
    /\ IF Interpreter(args.suffix) = "unsupported"
       THEN Raise("Unsupported script extension")
       ELSE pc' = "open_stdout" /\ UNCHANGED error
    /\ UNCHANGED <<text, outputVar, validation, exitCode, args, env, workdir, copied,
                   stdoutOpen, stderrOpen, spawned, returncode>>

\* line 331, stdout_path.open("wb"): the file opens, or OSError
OpenStdout ==
    /\ pc = "open_stdout"
    /\ \/ stdoutOpen' = TRUE /\ pc' = "open_stderr" /\ UNCHANGED error
       \/ Raise("OSError") /\ UNCHANGED stdoutOpen
    /\ UNCHANGED <<text, outputVar, validation, exitCode, args, env, workdir, copied,
                   stderrOpen, spawned, returncode>>

\* line 331, stderr_path.open("wb"): the file opens, or OSError unwinds through stdout_f
OpenStderr ==
    /\ pc = "open_stderr"
    /\ \/ stderrOpen' = TRUE /\ pc' = "spawn" /\ UNCHANGED error
       \/ error' = "OSError" /\ pc' = "exit_stdout" /\ UNCHANGED stderrOpen
    /\ UNCHANGED <<text, outputVar, validation, exitCode, args, env, workdir, copied,
                   stdoutOpen, spawned, returncode>>

\* lines 332-339: subprocess.run starts the interpreter and waits for it, or
\* the interpreter is not installed (FileNotFoundError)
Spawn ==
    /\ pc = "spawn"
    /\ \/ \E code \in 0..MaxExit : \E out \in ChildOutputs :
             /\ spawned' = TRUE
             /\ returncode' = code
             /\ text' = out
             /\ UNCHANGED error
       \/ error' = "FileNotFoundError" /\ UNCHANGED <<spawned, returncode, text>>
    /\ pc' = "exit_stderr"
    /\ UNCHANGED <<outputVar, validation, exitCode, args, env, workdir, copied,
                   stdoutOpen, stderrOpen>>

\* a with statement whose exit leaves the files open when an exception is in flight
ExitStderrOnSuccessOnly ==
    /\ pc = "exit_stderr"
    /\ stderrOpen' = (error # "none")
    /\ pc' = "exit_stdout"
    /\ UNCHANGED <<text, outputVar, validation, exitCode, args, env, workdir, copied,
                   stdoutOpen, spawned, returncode, error>>

\* line 331, leaving the with statement: stderr_f is closed first
ExitStderr ==
    /\ pc = "exit_stderr"
    /\ stderrOpen' = FALSE
    /\ pc' = "exit_stdout"
    /\ UNCHANGED <<text, outputVar, validation, exitCode, args, env, workdir, copied,
                   stdoutOpen, spawned, returncode, error>>

\* line 331, leaving the with statement: stdout_f is closed, then the
\* exception in flight, if any, goes on (lines 340-341 catch FileNotFoundError)
ExitStdout ==
    /\ pc = "exit_stdout"
    /\ stdoutOpen' = FALSE
    /\ pc' = IF error = "FileNotFoundError" THEN "except"
             ELSE IF error = "OSError" THEN "raised"
             ELSE "validate"
    /\ UNCHANGED <<text, outputVar, validation, exitCode, args, env, workdir, copied,
                   stderrOpen, spawned, returncode, error>>

\* lines 340-341
ExceptFileNotFound ==
    /\ pc = "except"
    /\ Raise("Command not found")
    /\ UNCHANGED <<text, outputVar, validation, exitCode, args, env, workdir, copied,
                   stdoutOpen, stderrOpen, spawned, returncode>>

\* lines 343-364: read stdout.txt back, validate, return
ValidateAndReturn ==
    /\ pc = "validate"
    /\ IF ~ShouldValidate(args)
       THEN exitCode' = returncode /\ pc' = "done" /\ UNCHANGED <<validation, error>>
       ELSE LET result == ValidateMonitorOutput(text, outputVar)
            IN  IF result.raised
                THEN Raise("Invalid --output-var") /\ UNCHANGED <<validation, exitCode>>
                ELSE /\ validation' = [performed |-> TRUE, ok |-> result.ok, errors |-> result.errors]
                     /\ exitCode' = ReturnValue(returncode, result.ok)
                     /\ pc' = "done"
                     /\ UNCHANGED error
    /\ UNCHANGED <<text, outputVar, args, env, workdir, copied,
                   stdoutOpen, stderrOpen, spawned, returncode>>

\* lines 405-409: main reports an RmmError and returns 1; any other
\* exception ends the interpreter with status 1
MainExcept ==
    /\ pc = "raised"
    /\ exitCode' = RmmErrorCode
    /\ pc' = "done"
    /\ UNCHANGED <<text, outputVar, validation, args, env, workdir, copied,
                   stdoutOpen, stderrOpen, spawned, returncode, error>>

RunNext ==
    \/ ResolveScript
    \/ MakeWorkdir
    \/ LoadVars
    \/ CopyAttachments
    \/ ChooseInterpreter
    \/ OpenStdout
    \/ OpenStderr
    \/ Spawn
    \/ ExitStderr
    \/ ExitStdout
    \/ ExceptFileNotFound
    \/ ValidateAndReturn
    \/ MainExcept

RunSpec == RunInit /\ [][RunNext]_vars

-----------------------------------------------------------------------------
(* The protocol of spec sections 4.1 and 6, stated over the lines of a text *)

Blank(l) == \A i \in 1..Len(l) : l[i] \in Whitespace

\* l is the marker m with nothing but whitespace around it
IsMarker(l, m) ==
    \E i \in 1..Len(l) : l[i] = m /\ \A j \in (1..Len(l)) \ {i} : l[j] \in Whitespace

\* the positions of the lines that are the marker m
At(lines, m) == { i \in 1..Len(lines) : IsMarker(lines[i], m) }

Miscounted(lines) ==
    { m \in {StartDiagnostic, EndDiagnostic, StartResult, EndResult} :
        Cardinality(At(lines, m)) # 1 }

\* l starts with "N=" followed by at least one character
StartsWithVar(N, l) ==
    /\ Len(l) >= Len(N) + 2
    /\ \A i \in 1..Len(N) : l[i] = N[i]
    /\ l[Len(N) + 1] = "="

InOrder(lines) ==
    \E a \in At(lines, StartDiagnostic), b \in At(lines, EndDiagnostic),
       c \in At(lines, StartResult), d \in At(lines, EndResult) : a < b /\ b < c /\ c < d

\* the positions of the non-blank lines strictly between the result markers
BlockOf(lines) ==
    { i \in 1..Len(lines) :
        /\ ~Blank(lines[i])
        /\ \E c \in At(lines, StartResult), d \in At(lines, EndResult) : c < i /\ i < d }

Conforms(t, N) ==
    LET lines == SplitLines(t)
    IN  /\ Miscounted(lines) = {}
        /\ InOrder(lines)
        /\ Cardinality(BlockOf(lines)) = 1
        /\ \A i \in BlockOf(lines) :
              StartsWithVar(N, lines[i]) /\ lines[i][Len(N) + 2] \notin Whitespace

Validated == pc = "done" /\ validation.performed

\* the wording of each error of the result, in order
ErrorKinds == [i \in 1..Len(validation.errors) |-> validation.errors[i].kind]

\* C5: for a name of letters, digits and underscore, validation returns
\* ok=true exactly when each marker is one line of the text, the markers are
\* in order, and the result block holds exactly one non-blank line, which is
\* "N=" followed by a value that does not start with whitespace.
C5_OkIffConforms ==
    (pc = "done" /\ FullMatchName(outputVar)) =>
        /\ validation.performed
        /\ validation.ok <=> Conforms(text, outputVar)

\* a conforming output was accepted
C5_Witness == Validated /\ validation.ok /\ Conforms(text, outputVar) /\ outputVar = <<"S", "t">>

\* C6: when some marker does not occur exactly once, validation fails and
\* the errors are one count error per miscounted marker and nothing else.
C6_CountErrorsExact ==
    (Validated /\ Miscounted(SplitLines(text)) # {}) =>
        /\ ~validation.ok
        /\ Len(validation.errors) = Cardinality(Miscounted(SplitLines(text)))
        /\ \A m \in Miscounted(SplitLines(text)) :
              \E i \in 1..Len(validation.errors) : validation.errors[i] = ErrCount(m)
        /\ \A i \in 1..Len(validation.errors) :
              \E m \in Miscounted(SplitLines(text)) : validation.errors[i] = ErrCount(m)

\* a duplicated marker and a missing one, a third marker present once
C6_Witness ==
    /\ Validated
    /\ \E m \in Miscounted(SplitLines(text)) : Cardinality(At(SplitLines(text), m)) = 2
    /\ \E m \in Miscounted(SplitLines(text)) : Cardinality(At(SplitLines(text), m)) = 0
    /\ Cardinality(At(SplitLines(text), StartResult)) = 1
    /\ Len(validation.errors) = 2

\* The earliest stage of section 4.1 whose check fails on the text, "none" if all pass
FailingStage(t, N) ==
    LET lines == SplitLines(t)
        block == BlockOf(lines)
        hits == { i \in block : StartsWithVar(N, lines[i]) }
    IN  IF Miscounted(lines) # {} THEN "marker-count"
        ELSE IF ~InOrder(lines) THEN "ordering"
        ELSE IF block = {} THEN "empty-result-block"
        ELSE IF Cardinality(hits) # 1 THEN "match-count"
        ELSE IF Cardinality(block) > 1 THEN "extra-lines"
        ELSE IF \E i \in hits : lines[i][Len(N) + 2] \in Whitespace THEN "value-format"
        ELSE "none"

\* The wording of the errors each stage reports
StageKinds(stage) ==
    CASE stage = "ordering" -> {<<ErrOrder.kind>>}
      [] stage = "empty-result-block" -> {<<ErrEmpty.kind>>}
      [] stage = "match-count" -> {<<ErrMatch(<<>>, 0).kind, ErrExample.kind>>}
      [] stage = "extra-lines" -> {<<ErrExtra.kind, ErrExtraLines(<<>>).kind>>}
      [] stage = "value-format" -> {<<ErrValue.kind>>}
      [] stage = "marker-count" ->
            { [i \in 1..n |-> ErrCount(StartResult).kind] : n \in 1..4 }
      [] stage = "none" -> {<<>>}

\* C7: for a name of letters, digits and underscore, a result carries the errors of the earliest failing stage (in the
\* order marker-count, ordering, empty-result-block, match-count,
\* extra-lines, value-format) and of no other stage.
C7_FirstFailingStage ==
    (Validated /\ FullMatchName(outputVar)) =>
        /\ validation.ok <=> FailingStage(text, outputVar) = "none"
        /\ ErrorKinds \in StageKinds(FailingStage(text, outputVar))

\* two non-blank lines in the block, one of them the variable line with a
\* value starting with a blank: the extra-lines error alone
C7_Witness ==
    /\ Validated
    /\ FullMatchName(outputVar)
    /\ FailingStage(text, outputVar) = "extra-lines"
    /\ \E i \in BlockOf(SplitLines(text)) :
          /\ StartsWithVar(outputVar, SplitLines(text)[i])
          /\ SplitLines(text)[i][Len(outputVar) + 2] \in Whitespace
    /\ ErrorKinds = <<ErrExtra.kind, ErrExtraLines(<<>>).kind>>

-----------------------------------------------------------------------------
(* The run command's contract: spec sections 4.2, 5, 6 and 7 *)

C2_ChildSuccess ==
    (pc = "done" /\ spawned /\ returncode = 0) =>
        /\ (validation.performed /\ ~validation.ok) => exitCode = ValidationFailed
        /\ (~(args.validate_monitor \/ args.inMonitors)
              \/ (validation.performed /\ validation.ok)) => exitCode = 0

\* the child succeeded, its output failed validation, the run reports 2
C2_Witness ==
    /\ pc = "done" /\ returncode = 0
    /\ validation.performed /\ ~validation.ok
    /\ exitCode = ValidationFailed

\* C3 as stated: the run command reports 2 only if validation was
\* performed, returned ok=false, and the child exited with 0.
C3_ReservedCode ==
    (pc = "done" /\ exitCode = ValidationFailed) =>
        (validation.performed /\ ~validation.ok /\ returncode = 0)

\* C3, amended: the run command reports 2 only if the child itself exited
\* with 2, or validation was performed, returned ok=false, and the child
\* exited with 0.
C3_ReservedCodeOrChild ==
    (pc = "done" /\ exitCode = ValidationFailed) =>
        \/ returncode = ValidationFailed
        \/ (validation.performed /\ ~validation.ok /\ returncode = 0)

\* the child itself exited with 2 and no validation ran: 2 is reported
C3_Witness ==
    /\ pc = "done" /\ exitCode = ValidationFailed
    /\ returncode = ValidationFailed
    /\ ~validation.performed /\ error = "none"

\* the request has one of the defects of C4
Defective ==
    \/ ~args.scriptExists
    \/ Interpreter(args.suffix) = "unsupported"
    \/ (args.vars.given /\ ParseEnvFile(args.vars).raised)
    \/ ~FullMatchName(Strip(outputVar))

\* C4: a configuration error (script missing, unsupported extension,
\* missing or malformed override file, bad output-variable name) is never
\* reported after the child was spawned, and a request with such a defect
\* never spawns a child.
C4_ConfigErrorsBeforeSpawn ==
    /\ error \in {"--script not found", "Unsupported script extension", "--vars file not found",
                  "Invalid env line", "Invalid --output-var"} => ~spawned
    /\ Defective => ~spawned

\* C8: when the run command aborts with a configuration error, no working
\* directory has been created and no attachment has been copied.
C8_NoPartialState ==
    error \in {"--script not found", "Unsupported script extension", "--vars file not found",
               "Invalid env line", "--attachments must be a directory", "Invalid --output-var"}
        => (workdir # "created" /\ copied = {})

\* copy_attachments ran over a directory
CopyDone ==
    /\ args.attachments.given /\ args.attachments.isDir
    /\ pc \notin {"script", "workdir", "vars", "attachments"}
    /\ error \notin {"--script not found", "--vars file not found", "Invalid env line"}

\* C9 as stated: the names copied are exactly the entries of the source
\* that are regular files; sub-directories and symbolic links are ignored.
C9_RegularFilesOnly ==
    CopyDone =>
        copied = { n \in DOMAIN args.attachments.entries : args.attachments.entries[n] = "file" }

\* C9, amended: the names copied are exactly the entries of the source that
\* are regular files or symbolic links leading to regular files;
\* sub-directories, links to directories and dangling links are ignored,
\* and nothing below the first level is copied.
C9_FilesAndLinksToFiles ==
    /\ copied \subseteq EntryNames
    /\ CopyDone =>
          copied = { n \in DOMAIN args.attachments.entries :
                       args.attachments.entries[n] \in {"file", "symlink_to_file"} }

\* a link to a file was copied, a sub-directory was not
C9_Witness ==
    /\ CopyDone
    /\ \E n \in copied : args.attachments.entries[n] = "symlink_to_file"
    /\ \E n \in DOMAIN args.attachments.entries :
          args.attachments.entries[n] = "dir" /\ n \notin copied

\* C10: once the with statement of the capture files is left, on any path,
\* both files are closed; validation reads stdout.txt with both closed.
C10_CaptureFilesClosed ==
    pc \in {"validate", "except", "raised", "done"} => (~stdoutOpen /\ ~stderrOpen)

\* the interpreter was not found after both files were opened
C10_Witness == pc = "done" /\ error = "Command not found" /\ ~stdoutOpen /\ ~stderrOpen

====
